---- MODULE Spec2Model ----
(***************************************************************************)
(* Rental-listing reconciliation: the Google Sheets manager                *)
(* (src/src/sheets.py), the listing record (src/src/models.py), the        *)
(* data-protection commands (src/src/cli/commands/data_protection.py) and  *)
(* the field-hash table of the local cache.                                *)
(*                                                                         *)
(* Values.  A cell of the sheet and a string attribute of a listing is a   *)
(* TLA+ string; Python's None is the reserved string None.  A listing's    *)
(* amenities is a sequence of strings (None and [] behave alike in every   *)
(* use: "self.amenities or []"), its scraped_at a datetime, modelled as a  *)
(* natural number with NoTime for None.                                    *)
(*                                                                         *)
(* The md5 digest is symbolic: Md5(s) is the string "md5(s)", so distinct  *)
(* inputs have distinct digests (collisions of the 8-character prefix are  *)
(* not modelled) and the digest of a digest differs from the digest.       *)
(***************************************************************************)
EXTENDS Naturals, Sequences, FiniteSets, TLC

VARIABLES
    sheet,      \* the data rows of the worksheet, in order (row i of the model is row i+1 of the sheet)
    cache,      \* field_hashes table: url -> (field name -> stored hash)
    pc,         \* "idle", or "rescrape" while rescrape_all_listings is inside its loop
    job,        \* the local variables of the running rescrape_all_listings
    last,       \* history: the operation that produced this state, its inputs and what it wrote
    notes_set,  \* history: url -> how the notes of its row were last set ("none", "blank", "text")
    scope,      \* the URLs and the optional fields the operator's inputs range over (fixed by Init)
    page        \* the raw page cache: its clock, the page_cache table and the last call

vars == <<sheet, cache, pc, job, last, notes_set, scope, page>>

---------------------------------------------------------------------------
(* Values *)

None == "<None>"
NoTime == 0

\* Python truthiness of an Optional[str]
Truthy(v) == v # None /\ v # ""

\* Python's "a or b" on Optional[str]
Or(a, b) == IF Truthy(a) THEN a ELSE b

\* the i-th character of a string
Char(s, i) == SubSeq(s, i, i)

\* str.strip(): leading and trailing blanks removed
RECURSIVE Strip(_)
Strip(s) ==
    IF Len(s) = 0 THEN s
    ELSE IF Char(s, 1) = " " THEN Strip(SubSeq(s, 2, Len(s)))
    ELSE IF Char(s, Len(s)) = " " THEN Strip(SubSeq(s, 1, Len(s) - 1))
    ELSE s

\* str.replace(c, '') for a one-character c
RECURSIVE RemoveChar(_, _)
RemoveChar(s, c) ==
    IF Len(s) = 0 THEN s
    ELSE IF Char(s, 1) = c THEN RemoveChar(SubSeq(s, 2, Len(s)), c)
    ELSE Char(s, 1) \o RemoveChar(SubSeq(s, 2, Len(s)), c)

Digits == {"0", "1", "2", "3", "4", "5", "6", "7", "8", "9"}

\* int(s) does not raise ValueError: digits only (signs, blanks and underscores are not modelled)
IsIntText(s) == Len(s) > 0 /\ \A i \in 1..Len(s) : Char(s, i) \in Digits

\* float(s) does not raise ValueError: digits with at most one point
\* (signs, exponents, blanks, inf and nan are not modelled)
IsFloatText(s) ==
    /\ \A i \in 1..Len(s) : Char(s, i) \in Digits \cup {"."}
    /\ \E i \in 1..Len(s) : Char(s, i) \in Digits
    /\ Cardinality({i \in 1..Len(s) : Char(s, i) = "."}) <= 1

\* hashlib.md5(value.encode('utf-8')).hexdigest()[:8]
Md5(s) == "md5(" \o s \o ")"

\* datetime.isoformat()
IsoFormat(t) == "2025-01-0" \o ToString(t) \o "T00:00:00"

\* ", ".join(list)
RECURSIVE Join(_)
Join(xs) ==
    IF Len(xs) = 0 THEN ""
    ELSE IF Len(xs) = 1 THEN xs[1]
    ELSE xs[1] \o ", " \o Join(Tail(xs))

---------------------------------------------------------------------------
(* Record model: src/src/models.py *)

field_names ==
    << "url", "address", "price", "beds", "baths", "sqft", "house_type",
       "description", "amenities", "available_date", "parking", "utilities",
       "contact_info", "appointment_url", "scraped_at", "notes", "decision" >>

Fields == { field_names[i] : i \in 1..Len(field_names) }

DefaultDecision == "Pending Review"

get_decision_options ==
    << "Pending Review", "Interested", "Shortlisted", "Rejected", "Appointment Scheduled" >>

DecisionOptions == { get_decision_options[i] : i \in 1..Len(get_decision_options) }

\* RentalListing._hash_field
ModelHashField(value) == IF value = None THEN "" ELSE Md5(value)

\* RentalListing.to_sheet_row, the cell of field f
SheetCell(listing, f) ==
    CASE f \in {"url", "address"} -> listing[f]
      [] f = "amenities" -> Join(listing.amenities)
      [] f = "scraped_at" ->
            IF listing.scraped_at # NoTime THEN IsoFormat(listing.scraped_at) ELSE ""
      [] f = "decision" -> Or(listing.decision, DefaultDecision)
      [] OTHER -> Or(listing[f], "")

to_sheet_row(listing) == [f \in Fields |-> SheetCell(listing, f)]

\* RentalListing.to_hash_row, the hash of field f
HashCell(listing, f) ==
    CASE f = "amenities" -> ModelHashField(Join(listing.amenities))
      [] f = "scraped_at" ->
            ModelHashField(IF listing.scraped_at # NoTime
                           THEN IsoFormat(listing.scraped_at) ELSE "")
      [] OTHER -> ModelHashField(listing[f])

to_hash_row(listing) == [f \in Fields |-> HashCell(listing, f)]

---------------------------------------------------------------------------
(* Fact cache, field-hash table: WebPageCache.get_all_field_hashes,         *)
(* set_field_hash, clear_field_hashes, clear_specific_field_hashes.  The    *)
(* repository calls these methods but src/src/cache.py does not define      *)
(* them; they follow spec.md section 4.2.                                   *)

NoHashes == [f \in {} |-> ""]

get_all_field_hashes(c, url) == c[url]

\* set_hash(url, field, value): computes and stores the hash of value; no-op if value is empty
set_field_hash(c, url, field_name, value) ==
    IF ~Truthy(value) THEN c
    ELSE [c EXCEPT ![url] =
            [f \in (DOMAIN @) \cup {field_name} |->
                IF f = field_name THEN Md5(value) ELSE @[f]]]

clear_field_hashes(c, url) == [c EXCEPT ![url] = NoHashes]

clear_specific_field_hashes(c, url, field_list) ==
    [c EXCEPT ![url] = [f \in (DOMAIN @) \ field_list |-> @[f]]]

\* a storage error is logged and degrades to "no cached hash": while the
\* storage fails a read finds no hash for the URL
CacheSeen(c, url, cache_ok) == IF cache_ok THEN c ELSE clear_field_hashes(c, url)

\* and a write or a delete changes nothing
CacheKept(c, written, cache_ok) == IF cache_ok THEN written ELSE c

\* dict.get(field_name): None when there is no entry
StoredHash(stored_hashes, field_name) ==
    IF field_name \in DOMAIN stored_hashes THEN stored_hashes[field_name] ELSE None

---------------------------------------------------------------------------
(* GoogleSheetsManager: src/src/sheets.py *)

\* _validate_decision_value
validate_decision_value(decision) ==
    IF ~Truthy(decision) THEN DefaultDecision
    ELSE IF decision \in DecisionOptions THEN decision
    ELSE DefaultDecision

\* _validate_listing_for_dropdown
validate_listing_for_dropdown(listing) ==
    [listing EXCEPT !.decision = validate_decision_value(listing.decision)]

\* _validate_row_data_for_dropdown
validate_row_data_for_dropdown(row_data) ==
    [row_data EXCEPT !["decision"] = validate_decision_value(row_data["decision"])]

\* NotesManual with the test inverted
NotesManualInverted(stored_hash) == ~Truthy(stored_hash)

\* _detect_manual_changes, lines 89-98: the notes field
NotesManual(stored_hash) == Truthy(stored_hash)

\* _detect_manual_changes, lines 100-109: the decision field
DecisionManual(stored_hash) == Truthy(stored_hash)

\* FactManual without the test that a hash is stored
FactManualUnguarded(stored_hash, new_hash) == stored_hash # new_hash

\* _detect_manual_changes, lines 111-116: every other field
FactManual(stored_hash, new_hash) == Truthy(stored_hash) /\ stored_hash # new_hash

\* _detect_manual_changes, lines 85-116: the loop over the fields
CompareHashes(stored_hashes, new_hashes) ==
    [f \in Fields |->
        CASE f = "notes" -> NotesManual(StoredHash(stored_hashes, f))
          [] f = "decision" -> DecisionManual(StoredHash(stored_hashes, f))
          [] OTHER -> FactManual(StoredHash(stored_hashes, f), new_hashes[f])]

\* _detect_manual_changes
detect_manual_changes(c, url, new_listing) ==
    CompareHashes(get_all_field_hashes(c, url), to_hash_row(new_listing))

\* find_listing_row: the first data row whose URL cell is url, 0 for None
find_listing_row(sh, url) ==
    IF \E i \in 1..Len(sh) : sh[i]["url"] = url
    THEN CHOOSE i \in 1..Len(sh) :
            /\ sh[i]["url"] = url
            /\ \A j \in 1..(i - 1) : sh[j]["url"] # url
    ELSE 0

\* existing_row_data = None
NoRowData == [row_num |-> 0, address |-> None, notes |-> None, decision |-> None]

\* add_or_update_listing, lines 364-391: the existing row as the merge sees it
ExistingRow(sh, url, existing_row_data) ==
    IF existing_row_data.row_num # 0 THEN existing_row_data.row_num
    ELSE find_listing_row(sh, url)

ExistingData(sh, listing, existing_row_data) ==
    IF existing_row_data.row_num # 0
    THEN [f \in Fields |->
            CASE f = "url" -> listing.url
              [] f = "address" -> existing_row_data.address
              [] f = "notes" -> existing_row_data.notes
              [] f = "decision" -> existing_row_data.decision
              [] OTHER -> None]
    ELSE sh[find_listing_row(sh, listing.url)]

\* add_or_update_listing, lines 395-401
ManualChanges(c, listing, reset_hashes) ==
    IF reset_hashes THEN [f \in Fields |-> FALSE]
    ELSE detect_manual_changes(c, listing.url, listing)

\* Preserve with the branches exchanged
PreserveSwapped(row_data, manual_changes, existing_data) ==
    [f \in Fields |-> IF manual_changes[f] THEN row_data[f] ELSE existing_data[f]]

\* add_or_update_listing, lines 420-429: preserve manually modified fields
Preserve(row_data, manual_changes, existing_data) ==
    [f \in Fields |-> IF manual_changes[f] THEN existing_data[f] ELSE row_data[f]]

\* NotesGuard without the restoring branch
NotesGuardNever(row_data, existing_data) == row_data

\* add_or_update_listing, lines 431-436: notes are never lost if they existed before
NotesGuard(row_data, existing_data) ==
    IF Truthy(existing_data["notes"]) /\ ~Truthy(row_data["notes"])
    THEN [row_data EXCEPT !["notes"] = existing_data["notes"]]
    ELSE row_data

\* DecisionGuard restoring from the index of the notes block above it
DecisionGuardNotesIndex(row_data, existing_data) ==
    IF Truthy(existing_data["decision"]) /\ existing_data["decision"] # DefaultDecision
    THEN [row_data EXCEPT !["decision"] = existing_data["notes"]]
    ELSE row_data

\* add_or_update_listing, lines 438-443: a manually set decision is never lost
DecisionGuard(row_data, existing_data) ==
    IF Truthy(existing_data["decision"]) /\ existing_data["decision"] # DefaultDecision
    THEN [row_data EXCEPT !["decision"] = existing_data["decision"]]
    ELSE row_data

\* add_or_update_listing, lines 403-443: the row handed to worksheet.update
MergedRow(c, listing, reset_hashes, existing_data) ==
    DecisionGuard(
        NotesGuard(
            Preserve(validate_row_data_for_dropdown(to_sheet_row(listing)),
                     ManualChanges(c, listing, reset_hashes),
                     existing_data),
            existing_data),
        existing_data)

\* add_or_update_listing, lines 445-449 and 481-485: store the new hashes
RECURSIVE StoreHashesFrom(_, _, _, _)
StoreHashesFrom(c, url, new_hashes, i) ==
    IF i > Len(field_names) THEN c
    ELSE StoreHashesFrom(
            IF Truthy(new_hashes[field_names[i]])
            THEN set_field_hash(c, url, field_names[i], new_hashes[field_names[i]])
            ELSE c,
            url, new_hashes, i + 1)

StoreHashes(c, listing) == StoreHashesFrom(c, listing.url, to_hash_row(listing), 1)

\* UpdateRow writing the row into every row of the sheet
UpdateRowEverywhere(sh, row_num, row_data) ==
    [i \in 1..Len(sh) |-> [f \in Fields |-> IF row_data[f] = None THEN sh[i][f] ELSE row_data[f]]]

\* worksheet.update(range, [row_data]) on an existing row: the Sheets API skips
\* a null value (the cell keeps its content) and sets every other cell
UpdateRow(sh, row_num, row_data) ==
    [sh EXCEPT ![row_num] =
        [f \in Fields |-> IF row_data[f] = None THEN @[f] ELSE row_data[f]]]

\* add_or_update_listing, lines 445-454: hashes stored, then the row updated.
\* write_ok = FALSE: worksheet.update raises, the except clause returns False.
WriteExisting(sh, c, listing, existing_row, row_data, write_ok) ==
    [ sheet |-> IF write_ok THEN UpdateRow(sh, existing_row, row_data) ELSE sh,
      cache |-> StoreHashes(c, listing),
      existed |-> TRUE,
      row_data |-> row_data,
      ok |-> write_ok ]

\* add_or_update_listing, lines 393-454: the URL has a row
UpdateExisting(sh, c, listing, reset_hashes, existing_row, existing_data, write_ok) ==
    WriteExisting(sh, c, listing, existing_row,
                  MergedRow(c, listing, reset_hashes, existing_data), write_ok)

\* add_or_update_listing, lines 455-489: the URL has no row
AppendNew(sh, c, listing, row_data, write_ok) ==
    [ sheet |-> IF write_ok THEN Append(sh, row_data) ELSE sh,
      cache |-> StoreHashes(c, listing),
      existed |-> FALSE,
      row_data |-> row_data,
      ok |-> write_ok ]

\* ClearOnReset without the call of clear_field_hashes
ClearOnResetNever(c, url, reset_hashes) == c

\* ClearOnReset clearing the hashes on every call
ClearOnResetAlways(c, url, reset_hashes) == clear_field_hashes(c, url)

\* add_or_update_listing, lines 395-398: reset_hashes clears the hashes of the URL
ClearOnReset(c, url, reset_hashes) ==
    IF reset_hashes THEN clear_field_hashes(c, url) ELSE c

\* add_or_update_listing: the state after the call, the row handed to
\* worksheet.update and the value returned
add_or_update_listing(sh, c, listing, reset_hashes, existing_row_data, write_ok) ==
    IF ExistingRow(sh, listing.url, existing_row_data) # 0
    THEN UpdateExisting(sh,
                        ClearOnReset(c, listing.url, reset_hashes),
                        listing, reset_hashes,
                        ExistingRow(sh, listing.url, existing_row_data),
                        ExistingData(sh, listing, existing_row_data),
                        write_ok)
    ELSE AppendNew(sh, c, listing,
                   validate_row_data_for_dropdown(to_sheet_row(listing)), write_ok)

---------------------------------------------------------------------------
(* Inputs: the listings a scraper or a caller can hand over.  The optional  *)
(* attributes outside scope.populated are absent (None); url and address    *)
(* are always set.                                                          *)

Populated(f, values, default) == IF f \in scope.populated THEN values ELSE {default}

Listings(u) ==
    { [ url |-> u, address |-> a, price |-> p, beds |-> None, baths |-> None,
        sqft |-> None, house_type |-> None, description |-> d, amenities |-> am,
        available_date |-> None, parking |-> None, utilities |-> None,
        contact_info |-> None, appointment_url |-> None, scraped_at |-> t,
        notes |-> n, decision |-> dec ] :
        a \in Populated("address", {"12 Oak St", "14 Elm St"}, "12 Oak St"),
        p \in Populated("price", {None, "$1,200", "$1,250/mo"}, None),
        d \in Populated("description", {None, "sunny", "quiet"}, None),
        am \in Populated("amenities", {<<>>, <<"pool">>, <<"pool", "gym">>}, <<>>),
        t \in Populated("scraped_at", {NoTime, 1, 2}, NoTime),
        n \in Populated("notes", {None, "call owner"}, None),
        dec \in Populated("decision", {DefaultDecision, "Interested", "Maybe"},
                          DefaultDecision) }

\* datetime.now()
Now == Populated("scraped_at", {1, 2}, 1)

\* the operation that produced the state
NoListing == [url |-> None]
NoRow == [f \in {} |-> ""]
NoKept == <<>>
NoSummary == [ successful |-> 0, failed |-> 0, total |-> 0,
               scraped_successfully |-> 0, scraped_failed |-> 0 ]
Op(op, url) ==
    [ op |-> op, url |-> url, listing |-> NoListing, result |-> NoListing, reset |-> FALSE,
      preloaded |-> FALSE, existed |-> FALSE, scraped |-> FALSE, ok |-> FALSE,
      row_data |-> NoRow, before |-> NoRow, hashed |-> {}, fields |-> {},
      kept |-> NoKept, cache_ok |-> TRUE, summary |-> NoSummary ]

\* how a notes value counts: absent, whitespace only, or text
NotesMark(v) ==
    IF ~Truthy(v) THEN "none" ELSE IF Truthy(Strip(v)) THEN "text" ELSE "blank"

\* notes_set after add_or_update_listing: incoming notes that reached the row set
\* the notes; a forced reset withdraws what was set before
AfterReconcile(mark, listing, reset_hashes, r) ==
    IF r.ok /\ Truthy(listing.notes) /\ r.row_data["notes"] = listing.notes
    THEN NotesMark(listing.notes)
    ELSE IF reset_hashes THEN "none" ELSE mark

NoJob == [ urls |-> <<>>, data |-> NoHashes, i |-> 0, ignore |-> FALSE,
           successful |-> 0, failed |-> 0, scraped_successfully |-> 0, scraped_failed |-> 0 ]

---------------------------------------------------------------------------
(* Operations *)

\* add (src/src/cli/commands/core.py, _process_single_url): a scraped listing is
\* handed to add_or_update_listing without pre-loaded row data
Add(u, listing, reset_hashes, write_ok, cache_ok) ==
    /\ pc = "idle"
    /\ \E r \in {add_or_update_listing(sheet, CacheSeen(cache, u, cache_ok), listing,
                                       reset_hashes, NoRowData, write_ok)} :
           /\ sheet' = r.sheet
           /\ cache' = CacheKept(cache, r.cache, cache_ok)
           /\ last' = [ Op("add", u) EXCEPT
                          !.listing = listing, !.result = listing, !.reset = reset_hashes,
                          !.existed = r.existed, !.scraped = TRUE, !.ok = r.ok,
                          !.row_data = r.row_data,
                          !.before = IF r.existed THEN sheet[find_listing_row(sheet, u)]
                                     ELSE NoRow,
                          !.hashed = DOMAIN get_all_field_hashes(cache, u),
                          !.cache_ok = cache_ok ]
           /\ notes_set' = [notes_set EXCEPT
                               ![u] = AfterReconcile(@, listing, reset_hashes, r)]
    /\ UNCHANGED <<pc, job, scope, page>>

\* update_listing_notes
update_listing_notes(u, notes) ==
    /\ pc = "idle"
    /\ LET i == find_listing_row(sheet, u)
       IN  IF i # 0
           THEN /\ sheet' = [sheet EXCEPT ![i]["notes"] = notes]
                /\ cache' = IF Truthy(notes) /\ Truthy(Strip(notes))
                            THEN set_field_hash(cache, u, "notes", notes)
                            ELSE clear_specific_field_hashes(cache, u, {"notes"})
                /\ last' = [Op("update_notes", u) EXCEPT !.ok = TRUE, !.existed = TRUE]
                /\ notes_set' = [notes_set EXCEPT ![u] = NotesMark(notes)]
           ELSE /\ UNCHANGED <<sheet, cache, notes_set>>
                /\ last' = Op("update_notes", u)
    /\ UNCHANGED <<pc, job, scope, page>>

\* update_listing_decision without the check of the decision options
update_listing_decision_unchecked(u, decision) ==
    /\ pc = "idle"
    /\ LET normalized_decision == validate_decision_value(decision)
           i == find_listing_row(sheet, u)
       IN  IF i # 0
           THEN /\ sheet' = [sheet EXCEPT ![i]["decision"] = normalized_decision]
                /\ cache' = IF normalized_decision # DefaultDecision
                            THEN set_field_hash(cache, u, "decision", normalized_decision)
                            ELSE clear_specific_field_hashes(cache, u, {"decision"})
                /\ last' = [Op("update_decision", u) EXCEPT !.ok = TRUE, !.existed = TRUE]
           ELSE /\ UNCHANGED <<sheet, cache>>
                /\ last' = Op("update_decision", u)
    /\ UNCHANGED <<pc, job, notes_set, scope, page>>

\* update_listing_decision
update_listing_decision(u, decision) ==
    /\ pc = "idle"
    /\ IF decision \notin DecisionOptions
       THEN /\ UNCHANGED <<sheet, cache>>
            /\ last' = Op("update_decision", u)
       ELSE LET normalized_decision == validate_decision_value(decision)
                i == find_listing_row(sheet, u)
            IN  IF i # 0
                THEN /\ sheet' = [sheet EXCEPT ![i]["decision"] = normalized_decision]
                     /\ cache' = IF /\ Truthy(normalized_decision)
                                    /\ Truthy(Strip(normalized_decision))
                                    /\ normalized_decision # DefaultDecision
                                 THEN set_field_hash(cache, u, "decision", normalized_decision)
                                 ELSE clear_specific_field_hashes(cache, u, {"decision"})
                     /\ last' = [Op("update_decision", u) EXCEPT !.ok = TRUE, !.existed = TRUE]
                ELSE /\ UNCHANGED <<sheet, cache>>
                     /\ last' = Op("update_decision", u)
    /\ UNCHANGED <<pc, job, notes_set, scope, page>>

\* FIELD_NAMES of src/src/cli_utils.py: the names protect-fields and
\* unprotect-fields accept (decision is not among them)
FIELD_NAMES == Fields \ {"decision"}

\* validate_field_names
validate_field_names(fields) == fields \cap FIELD_NAMES

\* get_field_value_by_name
get_field_value_by_name(field_name, existing_data) == existing_data[field_name]

\* protect_fields, lines 121-128: seed the hash of every named non-empty field
RECURSIVE ProtectFrom(_, _, _, _, _)
ProtectFrom(c, url, valid_fields, existing_data, i) ==
    IF i > Len(field_names) THEN c
    ELSE ProtectFrom(
            IF /\ field_names[i] \in valid_fields
               /\ Truthy(get_field_value_by_name(field_names[i], existing_data))
            THEN set_field_hash(c, url, field_names[i],
                                get_field_value_by_name(field_names[i], existing_data))
            ELSE c,
            url, valid_fields, existing_data, i + 1)

\* protect-fields --url u --fields fields
protect_fields(u, fields) ==
    /\ pc = "idle"
    /\ LET existing_row == find_listing_row(sheet, u)
       IN  IF existing_row # 0 /\ validate_field_names(fields) # {}
           THEN /\ cache' = ProtectFrom(cache, u, validate_field_names(fields),
                                        sheet[existing_row], 1)
                /\ last' = [Op("protect_fields", u) EXCEPT
                               !.ok = TRUE, !.existed = TRUE, !.fields = fields,
                               !.kept = IF "price" \in fields
                                           /\ Truthy(sheet[existing_row]["price"])
                                        THEN <<u, sheet[existing_row]["price"]>>
                                        ELSE NoKept]
           ELSE /\ cache' = cache
                /\ last' = Op("protect_fields", u)
    /\ UNCHANGED <<sheet, pc, job, notes_set, scope, page>>

\* unprotect-fields --url u --fields fields
unprotect_fields(u, fields) ==
    /\ pc = "idle"
    /\ LET existing_row == find_listing_row(sheet, u)
           currently_protected ==
               validate_field_names(fields) \cap DOMAIN get_all_field_hashes(cache, u)
       IN  IF existing_row # 0 /\ currently_protected # {}
           THEN /\ cache' = clear_specific_field_hashes(cache, u, currently_protected)
                /\ last' = [Op("unprotect_fields", u) EXCEPT
                               !.ok = TRUE, !.existed = TRUE, !.fields = fields]
           ELSE /\ cache' = cache
                /\ last' = Op("unprotect_fields", u)
    /\ notes_set' = [notes_set EXCEPT ![u] = IF "notes" \in fields THEN "none" ELSE @]
    /\ UNCHANGED <<sheet, pc, job, scope, page>>

\* reset_hashes clearing every hash of the URL but the one of the notes
reset_hashes_but_notes(u) ==
    /\ pc = "idle"
    /\ cache' = clear_specific_field_hashes(cache, u, Fields \ {"notes"})
    /\ last' = [Op("reset_hashes", u) EXCEPT !.ok = TRUE]
    /\ notes_set' = [notes_set EXCEPT ![u] = "none"]
    /\ UNCHANGED <<sheet, pc, job, scope, page>>

\* reset-hashes --url u
reset_hashes(u) ==
    /\ pc = "idle"
    /\ cache' = clear_field_hashes(cache, u)
    /\ last' = [Op("reset_hashes", u) EXCEPT !.ok = TRUE]
    /\ notes_set' = [notes_set EXCEPT ![u] = "none"]
    /\ UNCHANGED <<sheet, pc, job, scope, page>>

\* rescrape_all_listings, lines 671-680: the URLs of the sheet and their row data
RowsWithUrl(sh) == SelectSeq([i \in 1..Len(sh) |-> i], LAMBDA i : Truthy(Strip(sh[i]["url"])))

UrlRowData(sh, url) ==
    LET i == CHOOSE i \in 1..Len(sh) :
                /\ Strip(sh[i]["url"]) = url
                /\ \A j \in (i + 1)..Len(sh) : Strip(sh[j]["url"]) # url
    IN  [ row_num |-> i, address |-> sh[i]["address"], notes |-> sh[i]["notes"],
          decision |-> sh[i]["decision"] ]

\* rescrape_all_listings, lines 659-690: read the sheet once
rescrape_start(ignore_hashes) ==
    /\ pc = "idle"
    /\ LET rows == RowsWithUrl(sheet)
           urls == [k \in 1..Len(rows) |-> Strip(sheet[rows[k]]["url"])]
       IN  IF Len(urls) = 0
           THEN /\ UNCHANGED <<pc, job>>
                /\ last' = [Op("rescrape_empty", None) EXCEPT !.reset = ignore_hashes]
           ELSE /\ pc' = "rescrape"
                /\ job' = [ urls |-> urls,
                            data |-> [u \in {urls[k] : k \in 1..Len(urls)} |->
                                        UrlRowData(sheet, u)],
                            i |-> 1,
                            ignore |-> ignore_hashes,
                            successful |-> 0, failed |-> 0,
                            scraped_successfully |-> 0, scraped_failed |-> 0 ]
                /\ last' = [ Op("rescrape_start", None) EXCEPT
                               !.reset = ignore_hashes,
                               !.url = IF last.op = "rescrape_done" THEN last.url ELSE None,
                               !.result = IF last.op = "rescrape_done" /\ ~last.reset
                                          THEN last.result ELSE NoListing,
                               !.scraped = last.op = "rescrape_done" /\ last.scraped,
                               !.ok = last.op = "rescrape_done" /\ ~last.reset /\ last.ok,
                               !.kept = IF last.op = "protect_fields" THEN last.kept
                                        ELSE NoKept ]
    /\ UNCHANGED <<sheet, cache, notes_set, scope, page>>

\* rescrape_all_listings, lines 702-723: the listing standing in for a failed scrape
FailedScrapeListing(url, row_data, now) ==
    [ url |-> url, address |-> Or(row_data.address, "Scraping Failed"),
      price |-> None, beds |-> None, baths |-> None, sqft |-> None, house_type |-> None,
      description |-> "Data unavailable - scraping failed", amenities |-> <<>>,
      available_date |-> None, parking |-> None, utilities |-> None,
      contact_info |-> None, appointment_url |-> None, scraped_at |-> now,
      notes |-> row_data.notes, decision |-> Or(row_data.decision, DefaultDecision) ]

\* CarryOver without the block that carries the notes
CarryOverDecisionOnly(new_listing, row_data) ==
    [new_listing EXCEPT
        !.decision = IF /\ Truthy(row_data.decision)
                        /\ Truthy(Strip(row_data.decision))
                        /\ row_data.decision # DefaultDecision
                     THEN row_data.decision ELSE @]

\* rescrape_all_listings, lines 725-735: notes and decision of the sheet carried over
CarryOver(new_listing, row_data) ==
    [new_listing EXCEPT
        !.notes = IF Truthy(row_data.notes) /\ Truthy(Strip(row_data.notes))
                  THEN row_data.notes ELSE @,
        !.decision = IF /\ Truthy(row_data.decision)
                        /\ Truthy(Strip(row_data.decision))
                        /\ row_data.decision # DefaultDecision
                     THEN row_data.decision ELSE @]

\* rescrape_all_listings, lines 699-738: the listing handed to add_or_update_listing
NewListing(url, row_data, scraped, result, now) ==
    validate_listing_for_dropdown(
        IF scraped THEN CarryOver(result, row_data)
        ELSE FailedScrapeListing(url, row_data, now))

\* CountItem without the count of the failed updates
CountItemUpdatedOnly(j, scraped, ok) ==
    [j EXCEPT
        !.scraped_successfully = IF scraped THEN @ + 1 ELSE @,
        !.scraped_failed = IF scraped THEN @ ELSE @ + 1,
        !.successful = IF ok THEN @ + 1 ELSE @]

\* rescrape_all_listings, lines 724, 726 and 750-755: the counters of the summary
CountItem(j, scraped, ok) ==
    [j EXCEPT
        !.scraped_successfully = IF scraped THEN @ + 1 ELSE @,
        !.scraped_failed = IF scraped THEN @ ELSE @ + 1,
        !.successful = IF ok THEN @ + 1 ELSE @,
        !.failed = IF ok THEN @ ELSE @ + 1]

\* rescrape_all_listings, lines 693-755: one iteration of the loop.
\* scraped = FALSE: scraper.scrape_listing(url) returned None.
rescrape_item(scraped, result, now, write_ok, cache_ok) ==
    /\ pc = "rescrape"
    /\ job.i <= Len(job.urls)
    /\ \E url \in {job.urls[job.i]} :
       \E new_listing \in {NewListing(url, job.data[url], scraped, result, now)} :
       \E r \in {add_or_update_listing(
                    sheet,
                    IF job.ignore THEN clear_field_hashes(CacheSeen(cache, url, cache_ok), url)
                    ELSE CacheSeen(cache, url, cache_ok),
                    new_listing, job.ignore, job.data[url], write_ok)} :
           /\ sheet' = r.sheet
           /\ cache' = CacheKept(cache, r.cache, cache_ok)
           /\ job' = [CountItem(job, scraped, r.ok) EXCEPT !.i = @ + 1]
           /\ last' = [ Op("rescrape_item", url) EXCEPT
                          !.listing = new_listing, !.result = result, !.reset = job.ignore,
                          !.preloaded = TRUE, !.existed = r.existed, !.scraped = scraped,
                          !.ok = r.ok, !.row_data = r.row_data,
                          !.before = sheet[job.data[url].row_num],
                          !.hashed = DOMAIN get_all_field_hashes(cache, url),
                          !.kept = last.kept, !.cache_ok = cache_ok ]
           /\ notes_set' = [notes_set EXCEPT
                               ![url] = AfterReconcile(@, new_listing, job.ignore, r)]
    /\ UNCHANGED <<pc, scope, page>>

\* _ensure_data_consistency, lines 312-335: a price, beds or baths cell that does
\* not parse as a number is cleared
ConsistentCell(f, v) ==
    CASE f = "price" ->
            IF Truthy(v) /\ ~IsFloatText(RemoveChar(RemoveChar(v, "$"), ",")) THEN "" ELSE v
      [] f = "beds" -> IF Truthy(v) /\ ~IsIntText(v) THEN "" ELSE v
      [] f = "baths" -> IF Truthy(v) /\ ~IsFloatText(v) THEN "" ELSE v
      [] OTHER -> v

ensure_data_consistency(sh) ==
    [i \in 1..Len(sh) |-> [f \in Fields |-> ConsistentCell(f, sh[i][f])]]

\* rescrape_all_listings, lines 761-768: after the loop (_maintain_table_structure
\* changes no row of 17 cells)
rescrape_finish ==
    /\ pc = "rescrape"
    /\ job.i > Len(job.urls)
    /\ sheet' = ensure_data_consistency(sheet)
    /\ pc' = "idle"
    /\ job' = NoJob
    /\ last' = [ Op("rescrape_done", last.url) EXCEPT
                   !.reset = job.ignore, !.result = last.result, !.scraped = last.scraped,
                   !.ok = last.ok, !.kept = last.kept,
                   !.summary = [ successful |-> job.successful,
                                 failed |-> job.failed,
                                 total |-> Len(job.urls),
                                 scraped_successfully |-> job.scraped_successfully,
                                 scraped_failed |-> job.scraped_failed ] ]
    /\ UNCHANGED <<cache, notes_set, scope, page>>

\* str.split(", ")
RECURSIVE SplitFrom(_, _, _)
SplitFrom(s, i, start) ==
    IF i + 1 > Len(s) THEN << SubSeq(s, start, Len(s)) >>
    ELSE IF SubSeq(s, i, i + 1) = ", "
         THEN << SubSeq(s, start, i - 1) >> \o SplitFrom(s, i + 2, i + 2)
         ELSE SplitFrom(s, i + 1, start)

Split(s) == SplitFrom(s, 1, 1)

\* datetime.fromisoformat of a cell written by isoformat()
FromIsoFormat(s) == CHOOSE t \in 1..9 : IsoFormat(t) = s

\* get_all_listings, lines 509-527: the record read from a row; a cell is a
\* string, empty or not
ListingOfRow(row) ==
    [f \in Fields |->
        CASE f = "amenities" -> IF row[f] # "" THEN Split(row[f]) ELSE <<>>
          [] f = "scraped_at" -> IF row[f] # "" THEN FromIsoFormat(row[f]) ELSE NoTime
          [] OTHER -> row[f]]

\* get_all_listings: the rows that have a URL and an address
get_all_listings(sh) ==
    [k \in 1..Len(SelectSeq(sh, LAMBDA row : row["url"] # "" /\ row["address"] # "")) |->
        ListingOfRow(SelectSeq(sh, LAMBDA row : row["url"] # "" /\ row["address"] # "")[k])]

\* sort_by_status: the priority of a decision, lowest first
decision_priority(decision) ==
    CASE decision = "Pending Review" -> 0
      [] decision = "Interested" -> 1
      [] decision = "Shortlisted" -> 2
      [] decision = "Appointment Scheduled" -> 3
      [] decision = "Rejected" -> 4
      [] OTHER -> 5

SortKey(listing) == decision_priority(Or(listing.decision, DefaultDecision))

\* sorted(listings, key = ...): stable, the listings of each priority in turn
RECURSIVE SortedFrom(_, _)
SortedFrom(listings, p) ==
    IF p > 5 THEN <<>>
    ELSE SelectSeq(listings, LAMBDA x : SortKey(x) = p) \o SortedFrom(listings, p + 1)

sorted(listings) == SortedFrom(listings, 0)

\* sort_listings_by_decision, lines 806-814: the hashes of each listing written
RECURSIVE StoreSorted(_, _, _)
StoreSorted(c, sorted_listings, i) ==
    IF i > Len(sorted_listings) THEN c
    ELSE StoreSorted(StoreHashes(c, validate_listing_for_dropdown(sorted_listings[i])),
                     sorted_listings, i + 1)

\* sort_listings_by_decision: every data row deleted, then the sorted listings
\* written from row 2 on
sort_listings_by_decision(sh, c, sorted_listings) ==
    [ sheet |-> [i \in 1..Len(sorted_listings) |->
                    to_sheet_row(validate_listing_for_dropdown(sorted_listings[i]))],
      cache |-> StoreSorted(c, sorted_listings, 1) ]

\* sort-by-status (src/src/cli/commands/core.py): nothing to do for a sheet
\* without listings
sort_by_status ==
    /\ pc = "idle"
    /\ IF Len(get_all_listings(sheet)) = 0
       THEN /\ UNCHANGED <<sheet, cache>>
            /\ last' = Op("sort", None)
       ELSE \E r \in {sort_listings_by_decision(sheet, cache, sorted(get_all_listings(sheet)))} :
               /\ sheet' = r.sheet
               /\ cache' = r.cache
               /\ last' = [Op("sort", None) EXCEPT !.ok = TRUE]
    /\ UNCHANGED <<pc, job, notes_set, scope, page>>

\* sort-by-status where worksheet.update raises for the k-th sorted listing:
\* the data rows are deleted, the listings before the k-th are written and
\* hashed, the exception ends the loop (sort_listings_by_decision, lines 821-823)
sort_write_fails(k) ==
    /\ pc = "idle"
    /\ k \in 1..Len(get_all_listings(sheet))
    /\ \E r \in {sort_listings_by_decision(sheet, cache,
                       SubSeq(sorted(get_all_listings(sheet)), 1, k - 1))} :
           /\ sheet' = r.sheet
           /\ cache' = r.cache
           /\ last' = [Op("sort", None) EXCEPT !.existed = TRUE]
    /\ UNCHANGED <<pc, job, notes_set, scope, page>>

\* the user blanks the URL cell of a row; rescrape_all_listings skips such a
\* row (at most one row of the sheet is left without URL)
blank_url_cell(i, blank) ==
    /\ pc = "idle"
    /\ i \in 1..Len(sheet)
    /\ \A k \in 1..Len(sheet) : Truthy(Strip(sheet[k]["url"]))
    /\ sheet' = [sheet EXCEPT ![i]["url"] = blank]
    /\ last' = [Op("blank_url", sheet[i]["url"]) EXCEPT !.ok = TRUE, !.existed = TRUE]
    /\ UNCHANGED <<cache, pc, job, notes_set, scope, page>>

\* the user types a value into the decision cell of a row: the dropdown rule
\* of the column is not in force when _setup_decision_validation failed
edit_decision_cell(u, decision) ==
    /\ pc = "idle"
    /\ find_listing_row(sheet, u) # 0
    /\ sheet' = [sheet EXCEPT ![find_listing_row(sheet, u)]["decision"] = decision]
    /\ last' = [Op("edit_decision", u) EXCEPT !.ok = TRUE, !.existed = TRUE]
    /\ UNCHANGED <<cache, pc, job, notes_set, scope, page>>

---------------------------------------------------------------------------
(* Raw page cache: WebPageCache.get, set and clear of src/src/cache.py.  The  *)
(* clock counts hours; a timestamp is kept as the text the code compares: its  *)
(* date, the separator between date and time, and the time of day.             *)

\* max_age_hours of get when the caller names none
DefaultMaxAge == 168

\* the last hour of the clock
MaxClock == 348

\* CURRENT_TIMESTAMP of SQLite: 'YYYY-MM-DD HH:MM:SS'
CurrentTimestamp(t) == [date |-> t \div 24, sep |-> " ", time |-> t % 24]

\* datetime.isoformat(): 'YYYY-MM-DDTHH:MM:SS.ffffff'
CutoffIsoFormat(t) == [date |-> t \div 24, sep |-> "T", time |-> t % 24]

\* a > b for two texts of the TIMESTAMP column, which SQLite compares byte by
\* byte: the date first, then the separator (a space sorts before 'T'), then
\* the time
TextGreater(a, b) ==
    \/ a.date > b.date
    \/ /\ a.date = b.date
       /\ \/ a.sep = "T" /\ b.sep = " "
          \/ a.sep = b.sep /\ a.time > b.time

\* an empty table, the clock a default lifetime after the origin of the calendar
NoPages ==
    [ now |-> DefaultMaxAge, store |-> [u \in {} |-> ""], stored |-> [u \in {} |-> ""],
      op |-> "init", url |-> None, max_age |-> 0, result |-> None ]

\* WebPageCache.set: INSERT OR REPLACE with created_at = last_accessed = now
page_set(url, content) ==
    /\ page' = [page EXCEPT
                  !.store = [u \in (DOMAIN @) \cup {url} |->
                                IF u = url
                                THEN [ content |-> content,
                                       created_at |-> CurrentTimestamp(page.now),
                                       last_accessed |-> CurrentTimestamp(page.now) ]
                                ELSE @[u]],
                  !.stored = [u \in (DOMAIN @) \cup {url} |->
                                IF u = url THEN [content |-> content, at |-> page.now]
                                ELSE @[u]],
                  !.op = "set", !.url = url, !.max_age = 0, !.result = None]
    /\ UNCHANGED <<sheet, cache, pc, job, last, notes_set, scope>>

\* WebPageCache.get, lines 77-84: the row is found when created_at > cutoff
Fresh(entry, now, max_age_hours) ==
    TextGreater(entry.created_at, CutoffIsoFormat(now - max_age_hours))

\* WebPageCache.get: a hit updates last_accessed and returns the content
page_get(url, max_age_hours) ==
    /\ IF url \in DOMAIN page.store /\ Fresh(page.store[url], page.now, max_age_hours)
       THEN page' = [page EXCEPT
                        !.store[url].last_accessed = CurrentTimestamp(page.now),
                        !.op = "get", !.url = url, !.max_age = max_age_hours,
                        !.result = page.store[url].content]
       ELSE page' = [page EXCEPT
                        !.op = "get", !.url = url, !.max_age = max_age_hours,
                        !.result = None]
    /\ UNCHANGED <<sheet, cache, pc, job, last, notes_set, scope>>

\* WebPageCache.clear(): every entry deleted
page_clear ==
    /\ page' = [page EXCEPT
                  !.store = [u \in {} |-> ""], !.stored = [u \in {} |-> ""],
                  !.op = "clear", !.url = None, !.max_age = 0, !.result = None]
    /\ UNCHANGED <<sheet, cache, pc, job, last, notes_set, scope>>

\* time passes
tick(hours) ==
    /\ page.now + hours <= MaxClock
    /\ page' = [page EXCEPT !.now = @ + hours, !.op = "tick", !.url = None,
                           !.max_age = 0, !.result = None]
    /\ UNCHANGED <<sheet, cache, pc, job, last, notes_set, scope>>

---------------------------------------------------------------------------
(* Specification *)

InitState(s) ==
    /\ scope = s
    /\ sheet = <<>>
    /\ cache = [u \in s.urls |-> NoHashes]
    /\ pc = "idle"
    /\ job = NoJob
    /\ last = Op("init", None)
    /\ notes_set = [u \in s.urls |-> "none"]
    /\ page = NoPages

Init == InitState([ urls |-> {"https://a.example/1"},
                    populated |-> {"notes", "decision"},
                    write_oks |-> {TRUE},
                    cache_oks |-> {TRUE} ])

Next ==
    \/ \E u \in scope.urls, reset \in BOOLEAN, w \in scope.write_oks, c \in scope.cache_oks :
          \E listing \in Listings(u) : Add(u, listing, reset, w, c)
    \/ \E u \in scope.urls, notes \in Populated("notes", {"", " ", "check kitchen"}, "") :
          update_listing_notes(u, notes)
    \/ \E u \in scope.urls :
          \E decision \in Populated("decision", {DefaultDecision, "Rejected", "Maybe"},
                                     DefaultDecision) :
              update_listing_decision(u, decision)
    \/ \E u \in scope.urls, fields \in (SUBSET scope.populated) \ {{}} : protect_fields(u, fields)
    \/ \E u \in scope.urls, fields \in (SUBSET scope.populated) \ {{}} : unprotect_fields(u, fields)
    \/ \E u \in scope.urls : reset_hashes(u)
    \/ \E ignore_hashes \in BOOLEAN : rescrape_start(ignore_hashes)
    \/ /\ pc = "rescrape" /\ job.i <= Len(job.urls)
       /\ \E scraped \in BOOLEAN, now \in Now, w \in scope.write_oks, c \in scope.cache_oks :
             \E result \in (IF scraped THEN Listings(job.urls[job.i]) ELSE {NoListing}) :
                 rescrape_item(scraped, result, now, w, c)
    \/ rescrape_finish

Spec == Init /\ [][Next]_vars

\* the same operations where the scraped price is the attribute that varies
InitPrice == InitState([ urls |-> {"https://a.example/1"},
                         populated |-> {"price"},
                         write_oks |-> {TRUE},
                    cache_oks |-> {TRUE} ])

SpecPrice == InitPrice /\ [][Next]_vars

\* the same operations where a write of the sheet or the storage of the cache
\* may fail
InitFail == InitState([ urls |-> {"https://a.example/1"},
                        populated |-> {"notes"},
                        write_oks |-> {TRUE, FALSE},
                        cache_oks |-> {TRUE, FALSE} ])

SpecFail == InitFail /\ [][Next]_vars

\* rows added and updated while the storage of the cache may fail
InitCacheFail == InitState([ urls |-> {"https://a.example/1"},
                             populated |-> {"notes", "decision"},
                             write_oks |-> {TRUE},
                             cache_oks |-> {TRUE, FALSE} ])

\* add and the two updates of a row
NextReconcile ==
    \/ \E u \in scope.urls, reset \in BOOLEAN, w \in scope.write_oks, c \in scope.cache_oks :
          \E listing \in Listings(u) : Add(u, listing, reset, w, c)
    \/ \E u \in scope.urls, notes \in Populated("notes", {"", " ", "check kitchen"}, "") :
          update_listing_notes(u, notes)
    \/ \E u \in scope.urls :
          \E decision \in Populated("decision", {DefaultDecision, "Rejected", "Maybe"},
                                     DefaultDecision) :
              update_listing_decision(u, decision)

SpecCacheFail == InitCacheFail /\ [][NextReconcile]_vars

\* the operations on a sheet whose rows are also sorted and whose decision
\* cells are also edited by hand
InitSheet == InitState([ urls |-> {"https://a.example/1"},
                         populated |-> {"decision"},
                         write_oks |-> {TRUE},
                         cache_oks |-> {TRUE} ])

NextSheet ==
    \/ Next
    \/ sort_by_status
    \/ \E u \in scope.urls, decision \in {"Maybe", "Rejected"} : edit_decision_cell(u, decision)

SpecSheet == InitSheet /\ [][NextSheet]_vars

\* rows of two URLs added and rescraped (plain mode: the counters do not read
\* ignore_hashes) while a write of the rescrape may fail and a URL cell may be
\* blanked by hand
InitBatch == InitState([ urls |-> {"https://a.example/1", "https://b.example/2"},
                         populated |-> {},
                         write_oks |-> {TRUE, FALSE},
                         cache_oks |-> {TRUE} ])

NextBatch ==
    \/ \E u \in scope.urls, c \in scope.cache_oks :
          \E listing \in Listings(u) : Add(u, listing, FALSE, TRUE, c)
    \/ \E i \in 1..Len(sheet), blank \in {"", " "} : blank_url_cell(i, blank)
    \/ rescrape_start(FALSE)
    \/ /\ pc = "rescrape" /\ job.i <= Len(job.urls)
       /\ \E scraped \in BOOLEAN, now \in Now, w \in scope.write_oks, c \in scope.cache_oks :
             \E result \in (IF scraped THEN Listings(job.urls[job.i]) ELSE {NoListing}) :
                 rescrape_item(scraped, result, now, w, c)
    \/ rescrape_finish

SpecBatch == InitBatch /\ [][NextBatch]_vars

\* the operations that write notes or their hash: add, rescrape, sort and
\* update-notes, with no failing write
InitNotes == InitState([ urls |-> {"https://a.example/1"},
                         populated |-> {"notes"},
                         write_oks |-> {TRUE},
                         cache_oks |-> {TRUE} ])

NextNotes ==
    \/ \E u \in scope.urls, reset \in BOOLEAN :
          \E listing \in Listings(u) : Add(u, listing, reset, TRUE, TRUE)
    \/ \E u \in scope.urls, notes \in {"", " ", "check kitchen"} :
          update_listing_notes(u, notes)
    \/ \E ignore_hashes \in BOOLEAN : rescrape_start(ignore_hashes)
    \/ /\ pc = "rescrape" /\ job.i <= Len(job.urls)
       /\ \E scraped \in BOOLEAN, now \in Now :
             \E result \in (IF scraped THEN Listings(job.urls[job.i]) ELSE {NoListing}) :
                 rescrape_item(scraped, result, now, TRUE, TRUE)
    \/ rescrape_finish
    \/ sort_by_status

SpecNotes == InitNotes /\ [][NextNotes]_vars

\* the rows a sheet grows to where a sequence of adds could grow it forever
MaxRows == 2

\* a URL handed to add with and without a leading blank (the HTTP client drops
\* the blank, the listing and the row keep it), then rescraped and annotated
InitUrl == InitState([ urls |-> {"https://a.example/1", " https://a.example/1"},
                       populated |-> {},
                       write_oks |-> {TRUE},
                       cache_oks |-> {TRUE} ])

NextUrl ==
    \/ \E u \in scope.urls :
          /\ Len(sheet) < MaxRows \/ find_listing_row(sheet, u) # 0
          /\ \E listing \in Listings(u) : Add(u, listing, FALSE, TRUE, TRUE)
    \/ \E u \in scope.urls, notes \in {"", "check kitchen"} : update_listing_notes(u, notes)
    \/ \E u \in scope.urls, decision \in {DefaultDecision, "Rejected"} :
          update_listing_decision(u, decision)
    \/ rescrape_start(FALSE)
    \/ /\ pc = "rescrape" /\ job.i <= Len(job.urls)
       /\ \E scraped \in BOOLEAN, now \in Now :
             \E result \in (IF scraped THEN Listings(job.urls[job.i]) ELSE {NoListing}) :
                 rescrape_item(scraped, result, now, TRUE, TRUE)
    \/ rescrape_finish

SpecUrl == InitUrl /\ [][NextUrl]_vars

\* two listings whose decisions are set by the command or typed into the cell,
\* and the sheet sorted, a write of the sort failing or not
InitSort == InitState([ urls |-> {"https://a.example/1", "https://b.example/2"},
                        populated |-> {},
                        write_oks |-> {TRUE},
                        cache_oks |-> {TRUE} ])

NextSort ==
    \/ \E u \in scope.urls :
          \E listing \in Listings(u) : Add(u, listing, FALSE, TRUE, TRUE)
    \/ \E u \in scope.urls, decision \in {"Interested", "Rejected"} :
          update_listing_decision(u, decision)
    \/ \E u \in scope.urls, notes \in {"check kitchen"} : update_listing_notes(u, notes)
    \/ \E u \in scope.urls, decision \in {"Maybe"} : edit_decision_cell(u, decision)
    \/ sort_by_status
    \/ \E k \in 1..Len(sheet) : sort_write_fails(k)

SpecSort == InitSort /\ [][NextSort]_vars

\* the raw page cache of one URL over the hours
NextPage ==
    \/ \E u \in scope.urls, content \in {"<html>1</html>", "<html>2</html>"} :
          page_set(u, content)
    \/ \E u \in scope.urls, max_age_hours \in {12, DefaultMaxAge} : page_get(u, max_age_hours)
    \/ page_clear
    \/ \E hours \in {12} : tick(hours)

SpecPage == Init /\ [][NextPage]_vars

---------------------------------------------------------------------------
(* Properties *)

\* the row of url in the sheet before and after a step
RowBefore(u) == sheet[find_listing_row(sheet, u)]
RowAfter(u) == sheet'[find_listing_row(sheet, u)]

\* the step is add_or_update_listing for u on a row that exists, called with
\* reset_hashes = reset (from add or from the loop of rescrape_all_listings)
Reconciles(u, reset) ==
    /\ last'.op \in {"add", "rescrape_item"}
    /\ last'.url = u
    /\ last'.reset = reset
    /\ last'.existed

NonDefault(decision) == Truthy(decision) /\ decision # DefaultDecision

\* C1: reconciliation is idempotent.  When a plain add_or_update_listing of a
\* record is followed by a plain add_or_update_listing of the same record, the
\* second call hands the same row to the sheet and no cell changes; when a plain
\* rescrape of a one-listing sheet is followed by a plain rescrape whose fetch
\* returns the same result, the second rescrape changes no cell.
C1_Idempotent ==
    [][ /\ ( /\ last.op = "add" /\ last'.op = "add"
             /\ last.url = last'.url
             /\ ~last.reset /\ ~last'.reset
             /\ last.ok /\ last'.ok
             /\ last.listing = last'.listing )
           => (sheet' = sheet /\ last'.row_data = last.row_data)
        /\ ( /\ last.op = "rescrape_start" /\ last'.op = "rescrape_item"
             /\ last.url = last'.url
             /\ ~last.reset
             /\ last.ok /\ last'.ok
             /\ last.scraped = last'.scraped
             /\ last.result = last'.result )
           => sheet' = sheet
      ]_vars

\* a second plain add of a record whose notes and decision differ from the row's
C1_Witness ==
    /\ last.op = "add" /\ last.existed /\ last.ok /\ ~last.reset
    /\ StoredHash(cache[last.url], "notes") = Md5(HashCell(last.listing, "notes"))
    /\ StoredHash(cache[last.url], "decision") = Md5(HashCell(last.listing, "decision"))
    /\ last.hashed = DOMAIN cache[last.url]
    /\ last.before = sheet[find_listing_row(sheet, last.url)]
    /\ last.listing.notes = "call owner"
    /\ last.before["notes"] = "check kitchen"
    /\ last.listing.decision = "Interested"
    /\ last.before["decision"] = "Rejected"

\* plain reconciliations leave the notes of every URL whose notes mark is in marks
NotesKeptFor(marks) ==
    \A u \in scope.urls :
        (Reconciles(u, FALSE) /\ notes_set[u] \in marks)
            => RowAfter(u)["notes"] = RowBefore(u)["notes"]

\* C2 (as amended): once the notes of a URL have been set to a value that is
\* not blank (not empty and not whitespace only) and no reset-hashes,
\* unprotect-fields of notes or forced reset followed, every plain
\* reconciliation leaves the notes of the row unchanged, whatever the incoming
\* notes are.
C2_NotesKept == [][NotesKeptFor({"text"})]_vars

\* C2 (as claimed): the same for every non-empty value, whitespace included
C2_NonEmptyNotesKept == [][NotesKeptFor({"blank", "text"})]_vars

\* a plain add with other incoming notes met notes the operator had set
C2_Witness ==
    /\ last.op = "add" /\ last.existed /\ last.ok /\ ~last.reset
    /\ notes_set[last.url] = "text"
    /\ last.listing.notes = "call owner"
    /\ last.before["notes"] = "check kitchen"
    /\ sheet[find_listing_row(sheet, last.url)]["notes"] = "check kitchen"

\* C3: a plain rescrape (every iteration of its loop, scrape successful or
\* failed, and its closing consistency pass) leaves every decision that is one
\* of the non-default options as it is.
C3_DecisionKept ==
    [][ (last'.op \in {"rescrape_item", "rescrape_done"} /\ ~last'.reset)
            => \A i \in 1..Len(sheet) :
                  sheet[i]["decision"] \in DecisionOptions \ {DefaultDecision}
                      => /\ i <= Len(sheet')
                         /\ sheet'[i]["decision"] = sheet[i]["decision"]
      ]_vars

\* a plain rescrape fetched another decision for a row whose decision was set
C3_Witness ==
    /\ last.op = "rescrape_item" /\ last.ok /\ ~last.reset /\ last.scraped
    /\ last.result.decision = "Interested"
    /\ last.before["decision"] = "Rejected"
    /\ sheet[find_listing_row(sheet, last.url)]["decision"] = "Rejected"

\* C4: for a row whose decision is the default, a plain add_or_update_listing
\* whose record carries a valid decision writes that decision.
C4_DefaultOverwritable ==
    [][ \A u \in scope.urls :
          ( /\ Reconciles(u, FALSE)
            /\ last'.op = "add" /\ last'.ok
            /\ RowBefore(u)["decision"] = DefaultDecision
            /\ last'.listing.decision \in DecisionOptions )
              => RowAfter(u)["decision"] = last'.listing.decision
      ]_vars

\* the scraped-fact fields: every field but notes and decision
FactFields == Fields \ {"notes", "decision"}

\* C5: in a plain reconciliation of an existing URL, the row handed to the
\* sheet holds, for every scraped-fact field, the existing row's value if a hash
\* is stored for the field and differs from the hash of the incoming value, and
\* the incoming value otherwise, on the path that reads the sheet and on the
\* path that is given the pre-loaded row data.
C5_FactDecisionTable ==
    [][ \A u \in scope.urls :
          Reconciles(u, FALSE)
              => \A f \in FactFields :
                    last'.row_data[f] =
                        IF /\ f \in DOMAIN cache[u]
                           /\ cache[u][f] # HashCell(last'.listing, f)
                        THEN RowBefore(u)[f]
                        ELSE SheetCell(last'.listing, f)
      ]_vars

\* C6: protect-fields of a non-empty price followed by a plain rescrape whose
\* fetch returns another price: when the rescrape has returned, the row still
\* holds the old price.
C6_ProtectedPriceKept ==
    ( /\ last.op = "rescrape_done"
      /\ ~last.reset
      /\ last.kept # NoKept
      /\ last.scraped
      /\ Truthy(last.result.price)
      /\ last.result.price # last.kept[2] )
        => sheet[find_listing_row(sheet, last.kept[1])]["price"] = last.kept[2]

\* C7: while a hash is stored for a scraped-fact field of a URL and the field is
\* not empty, every step of a plain rescrape (each iteration of the loop and
\* the closing consistency pass) keeps the row's value of the field.
C7_ProtectionPersists ==
    [][ (last'.op \in {"rescrape_item", "rescrape_done"} /\ ~last'.reset)
            => \A i \in 1..Len(sheet) : \A f \in FactFields :
                  ( /\ sheet[i]["url"] \in DOMAIN cache
                    /\ f \in DOMAIN cache[sheet[i]["url"]]
                    /\ Truthy(sheet[i][f]) )
                      => sheet'[i][f] = sheet[i][f]
      ]_vars

\* the incoming value of field f as a cell: the decision is one of the options,
\* the default standing for any other value
IncomingCell(f, listing) ==
    IF f = "decision" /\ SheetCell(listing, f) \notin DecisionOptions
    THEN DefaultDecision
    ELSE SheetCell(listing, f)

\* the value a reconciliation that detects no manual change leaves in field f
GuardedIncoming(f, listing, before) ==
    CASE f = "notes" ->
            IF Truthy(before["notes"]) /\ ~Truthy(IncomingCell("notes", listing))
            THEN before["notes"]
            ELSE IncomingCell("notes", listing)
      [] f = "decision" ->
            IF NonDefault(before["decision"])
            THEN before["decision"]
            ELSE IncomingCell("decision", listing)
      [] OTHER -> IncomingCell(f, listing)

IgnoreHashesKeeps(Kept(_)) ==
    (last'.op \in {"rescrape_item", "rescrape_done"} /\ last'.reset)
        => \A i \in 1..Len(sheet) :
              /\ Kept(sheet[i]["notes"]) => sheet'[i]["notes"] = sheet[i]["notes"]
              /\ NonDefault(sheet[i]["decision"])
                    => sheet'[i]["decision"] = sheet[i]["decision"]

NonBlank(v) == Truthy(v) /\ Truthy(Strip(v))

---------------------------------------------------------------------------
(* Hash bookkeeping of the fact cache *)

\* the field is absent from the record: None, no amenities, no scrape time
Absent(listing, f) ==
    CASE f = "amenities" -> listing.amenities = <<>>
      [] f = "scraped_at" -> listing.scraped_at = NoTime
      [] OTHER -> listing[f] = None

\* the step created or replaced the hash of (u, f)
HashCreated(u, f) ==
    /\ f \in DOMAIN cache'[u]
    /\ f \notin DOMAIN cache[u] \/ cache'[u][f] # cache[u][f]

HashesOf(value) == { Md5(value), Md5(ModelHashField(value)) }

AppendsNew(u) ==
    /\ last'.op = "add"
    /\ last'.url = u
    /\ ~last'.existed
    /\ last'.ok
    /\ last'.cache_ok

ReconcilesUncached(u) ==
    /\ last'.op \in {"add", "rescrape_item"}
    /\ last'.url = u
    /\ ~last'.cache_ok

ReconcilesAfterReset(u) ==
    /\ Reconciles(u, FALSE)
    /\ last'.ok
    /\ DOMAIN cache[u] = {}

C19_EveryItemCounted ==
    [][ /\ last'.op = "rescrape_item"
            => /\ job'.successful + job'.failed = job.i
               /\ job'.scraped_successfully + job'.scraped_failed = job.i
               /\ job'.failed = IF last'.ok THEN job.failed ELSE job.failed + 1
               /\ job'.scraped_failed =
                      IF last'.scraped THEN job.scraped_failed ELSE job.scraped_failed + 1
        /\ last'.op = "rescrape_done"
            => /\ last'.summary.successful + last'.summary.failed = last'.summary.total
               /\ last'.summary.scraped_successfully + last'.summary.scraped_failed
                      = last'.summary.total
               /\ last'.summary.total = Len(RowsWithUrl(sheet))
               /\ last'.summary.failed = job.failed
        /\ last'.op = "rescrape_empty"
            => /\ last'.summary = NoSummary
               /\ Len(RowsWithUrl(sheet)) = 0
      ]_vars

\* a rescrape of three rows, one of them without URL, returned a summary of
\* two items of which one update failed and one scrape failed
C19_Witness ==
    /\ last.op = "rescrape_done"
    /\ Len(sheet) = 3
    /\ last.summary.total = 2
    /\ last.summary.failed = 1
    /\ last.summary.successful = 1
    /\ last.summary.scraped_failed = 1

\* C20: get(url, max_age) returns the content last stored by set(url, ...)
\* exactly when less than max_age hours have passed since that set, and a miss
\* when the entry is older or absent; a hit leaves the time of creation as set
\* left it.
C20_TtlHonoured ==
    [][ page'.op = "get"
          => /\ page'.result =
                    IF /\ page'.url \in DOMAIN page.stored
                       /\ page.now - page.stored[page'.url].at < page'.max_age
                    THEN page.stored[page'.url].content
                    ELSE None
             /\ \A u \in DOMAIN page.store :
                    /\ u \in DOMAIN page'.store
                    /\ page'.store[u].created_at = page.store[u].created_at
                    /\ page'.store[u].content = page.store[u].content
      ]_vars

---------------------------------------------------------------------------
(* Frame, recovery and bookkeeping of the rows *)

\* C21: an iteration of a bulk rescrape changes only the row and the hashes of
\* the URL it processes: every other row and the hashes of every other URL
\* stay as they were, also when the write of the row fails.
C21_OnlyOwnRowAndHashes ==
    [][ last'.op = "rescrape_item"
          => /\ Len(sheet') = Len(sheet)
             /\ \A i \in 1..Len(sheet) :
                    i # job.data[last'.url].row_num => sheet'[i] = sheet[i]
             /\ \A u \in scope.urls : u # last'.url => cache'[u] = cache[u]
             /\ ~last'.ok => sheet' = sheet
      ]_vars

\* the first of two URLs was processed with a failed write while the second,
\* not yet processed, has its row and its hashes
C21_Witness ==
    /\ last.op = "rescrape_item"
    /\ ~last.ok
    /\ pc = "rescrape"
    /\ Len(job.urls) = 2
    /\ job.i = 2
    /\ DOMAIN cache[job.urls[2]] # {}
    /\ sheet[job.data[job.urls[2]].row_num]["url"] = job.urls[2]

\* a reconciliation of an existing row whose row write failed, directly
\* followed by the reconciliation of the same incoming record that succeeds
RetriesFailedWrite ==
    /\ last.op = "add"
    /\ last.existed
    /\ last.cache_ok
    /\ ~last.ok
    /\ last'.op = "add"
    /\ last'.url = last.url
    /\ last'.listing = last.listing
    /\ last'.reset = last.reset
    /\ last'.cache_ok
    /\ last'.ok

\* C22: after a failed row write, the next reconciliation of the same record
\* writes the merged row the failed one had computed from the original state.
C22_RetryWritesSameRow ==
    [][ RetriesFailedWrite => last'.row_data = last.row_data ]_vars

\* the user-authored fields
UserFields == {"notes", "decision"}

\* the step removes the hash entry of field f of URL u
HashRemoved(u, f) == f \in DOMAIN cache[u] /\ f \notin DOMAIN cache'[u]

\* the step is an operator action on URL u that is meant to drop the hash of
\* f: update-notes with empty notes, update-decision to the default,
\* unprotect-fields, reset-hashes, or a force-reset add or rescrape
ExplicitRemoval(u, f) ==
    /\ last'.url = u
    /\ \/ /\ last'.op = "update_notes"
          /\ f = "notes"
          /\ ~Truthy(Strip(sheet'[find_listing_row(sheet', u)]["notes"]))
       \/ /\ last'.op = "update_decision"
          /\ f = "decision"
          /\ sheet'[find_listing_row(sheet', u)]["decision"] = DefaultDecision
       \/ last'.op \in {"unprotect_fields", "reset_hashes"}
       \/ last'.op \in {"add", "rescrape_item"} /\ last'.reset

\* C23: the hash entry of notes or decision, once present, is removed only by
\* an explicit operator action; a plain add, a plain rescrape and a sort keep it.
C23_UserHashKept ==
    [][ \A u \in scope.urls : \A f \in UserFields :
            HashRemoved(u, f) => ExplicitRemoval(u, f) ]_vars

\* a plain add or a plain rescrape step has run on a URL whose notes and
\* decision hashes were present, and both are still present
C23_Witness ==
    /\ last.op \in {"add", "rescrape_item"}
    /\ ~last.reset
    /\ last.existed
    /\ UserFields \subseteq last.hashed
    /\ UserFields \subseteq DOMAIN cache[last.url]

\* C24: a listing whose notes are empty has no notes hash entry, in every
\* state reached by add, rescrape, sort and update-notes.
C24_EmptyNotesUnprotected ==
    \A i \in 1..Len(sheet) :
        ~Truthy(sheet[i]["notes"]) => "notes" \notin DOMAIN cache[sheet[i]["url"]]

\* C25: add, rescrape, update-notes and update-decision leave the URL cell of
\* every existing row unchanged, and the URL a rescrape step uses for the
\* hashes and the re-fetched record is the string of the row's URL cell.
C25_UrlNeverChanges ==
    [][ last'.op \in {"add", "rescrape_item", "update_notes", "update_decision"}
          => /\ \A i \in 1..Len(sheet) : sheet'[i]["url"] = sheet[i]["url"]
             /\ last'.op = "rescrape_item" => last'.url = last'.before["url"]
      ]_vars

\* the row of the sheet sh that holds URL u
RowOf(sh, u) == CHOOSE i \in 1..Len(sh) : sh[i]["url"] = u

\* C26: after a successful sort-by-status the data rows are in priority order
\* of the decisions written, and rows with the same decision keep their
\* previous relative order.
C26_SortedByWrittenDecision ==
    [][ last'.op = "sort" /\ last'.ok
          => \A i, j \in 1..Len(sheet') :
                i < j =>
                   /\ decision_priority(sheet'[i]["decision"])
                         <= decision_priority(sheet'[j]["decision"])
                   /\ sheet'[i]["decision"] = sheet'[j]["decision"]
                         => RowOf(sheet, sheet'[i]["url"]) < RowOf(sheet, sheet'[j]["url"])
      ]_vars

\* the decisions handed to update_listing_decision
DecisionInputs == DecisionOptions \cup {"Maybe"}

\* C27: update_listing_decision with a decision outside the options, or with a
\* URL that is not in the sheet, returns False and changes no row and no hash;
\* a successful call leaves a decision hash for a decision other than the
\* default and no decision hash for the default.
C27_DecisionUpdateAllOrNothing ==
    [][ \A u \in scope.urls : \A decision \in DecisionInputs :
          update_listing_decision(u, decision) =>
             IF decision \notin DecisionOptions \/ find_listing_row(sheet, u) = 0
             THEN ~last'.ok /\ sheet' = sheet /\ cache' = cache
             ELSE /\ last'.ok
                  /\ sheet'[find_listing_row(sheet, u)]["decision"] = decision
                  /\ decision # DefaultDecision <=> "decision" \in DOMAIN cache'[u]
      ]_vars

\* an update with a decision outside the options has failed on a listing that
\* is in the sheet and has a decision hash
C27_Witness ==
    /\ last.op = "update_decision"
    /\ ~last.ok
    /\ find_listing_row(sheet, last.url) # 0
    /\ "decision" \in DOMAIN cache[last.url]
    /\ sheet[find_listing_row(sheet, last.url)]["decision"] = "Rejected"

\* the entry update_listing_notes, update_listing_decision and protect-fields
\* leave for the value v of field f: set_field_hash(url, f, v)
EntryOfValue(u, f, v) == StoredHash(get_all_field_hashes(set_field_hash(cache, u, f, v), u), f)

\* C28: the entry add_or_update_listing leaves for a field of a new row equals
\* the entry protect-fields, update_listing_notes or update_listing_decision
\* leave for the value of that field.
C28_WritersStoreSameHash ==
    [][ \A u \in scope.urls :
          AppendsNew(u) =>
             \A f \in DOMAIN cache'[u] :
                cache'[u][f] = EntryOfValue(u, f, sheet'[find_listing_row(sheet', u)][f])
      ]_vars

\* the URLs of the data rows of the sheet sh
UrlsOf(sh) == {sh[i]["url"] : i \in 1..Len(sh)}

\* the fields a sort has no reason to change: all but the decision
KeptBySort == Fields \ {"decision"}

\* C29: a sort-by-status step leaves the set of URLs of the data rows as it
\* was, and every URL keeps its address, its notes and every scraped fact.
C29_SortKeepsListings ==
    [][ last'.op = "sort"
          => /\ UrlsOf(sheet') = UrlsOf(sheet)
             /\ \A i \in 1..Len(sheet) : \A j \in 1..Len(sheet') :
                   sheet'[j]["url"] = sheet[i]["url"]
                      => \A f \in KeptBySort : sheet'[j][f] = sheet[i][f]
      ]_vars

\* no two data rows of the sheet sh have the same URL
NoDuplicateUrl(sh) ==
    \A i, j \in 1..Len(sh) : i # j /\ Truthy(sh[i]["url"]) => sh[i]["url"] # sh[j]["url"]

\* C30: add_or_update_listing and the steps of rescrape_all_listings keep a
\* sheet without duplicate URLs without duplicates; an add for a URL that has
\* a row changes the number of rows by zero, a written add for a new URL by
\* one, a rescrape step by zero.
C30_OneRowPerUrl ==
    [][ last'.op \in {"add", "rescrape_item"} /\ NoDuplicateUrl(sheet)
          => /\ NoDuplicateUrl(sheet')
             /\ Len(sheet') = IF /\ last'.op = "add"
                                 /\ find_listing_row(sheet, last'.url) = 0
                                 /\ last'.ok
                              THEN Len(sheet) + 1 ELSE Len(sheet)
             /\ last'.op = "add" => last'.existed = (find_listing_row(sheet, last'.url) # 0)
      ]_vars

====
